---- MODULE Spec2Model ----
(***************************************************************************)
(* Model of earthData.py: the search-parameter object, the catalog search, *)
(* the two materialization strategies, the NaN row filter data_cleanup and *)
(* the two plotting functions, run in sequence by sea_surface_temperature. *)
(***************************************************************************)
EXTENDS Integers, Sequences, FiniteSets, TLC

VARIABLES METHOD, kwargs, pc, params, results, files, file_ds, opened,
          stream, ds_in, mask, data_cleaned, prev_cleaned, ncalls, images,
          trace, err, err_key, exit_code

vars == <<METHOD, kwargs, pc, params, results, files, file_ds, opened,
          stream, ds_in, mask, data_cleaned, prev_cleaned, ncalls, images,
          trace, err, err_key, exit_code>>

(* ---------------------------------------------------------------- bounds *)
MaxFiles == 2
MaxRows == 4

(* ------------------------------------------------------ search_params    *)
Keys == <<"start_date", "start_time", "end_date", "end_time", "bounding_box">>

KeySet == {Keys[i] : i \in 1..Len(Keys)}

OtherKey == "verbose"

Defaults ==
  [start_date |-> "2020-01-01", start_time |-> "00:00:00",
   end_date |-> "2020-01-01", end_time |-> "01:00:00",
   bounding_box |-> "(-45, -45, 45, 45)"]

CallerValues ==
  [start_date |-> "today-1d", start_time |-> "now-4h",
   end_date |-> "today", end_time |-> "now",
   bounding_box |-> "(-45, -45, 45, 45)", verbose |-> "1"]

Unset == [k \in KeySet |-> "unset"]

KwargSets == {[k \in K |-> CallerValues[k]] : K \in SUBSET (KeySet \cup {OtherKey})}

RECURSIVE FirstMissing(_, _)
FirstMissing(kw, i) ==
  IF i > Len(Keys) THEN 0
  ELSE IF Keys[i] \notin DOMAIN kw THEN i
  ELSE FirstMissing(kw, i + 1)

search_params_lenient(kw) ==
  [ok |-> TRUE,
   obj |-> [k \in KeySet |-> IF k \in DOMAIN kw THEN kw[k] ELSE Defaults[k]],
   key |-> "none"]

search_params_mixed(kw) ==
  IF DOMAIN kw = {}
  THEN [ok |-> TRUE, obj |-> Defaults, key |-> "none"]
  ELSE IF FirstMissing(kw, 1) = 0
       THEN [ok |-> TRUE,
             obj |-> [k \in KeySet |-> IF k = "end_time" THEN Defaults[k] ELSE kw[k]],
             key |-> "none"]
       ELSE [ok |-> FALSE, obj |-> Unset, key |-> Keys[FirstMissing(kw, 1)]]

search_params_init(kw) ==
  IF DOMAIN kw = {}
  THEN [ok |-> TRUE, obj |-> Defaults, key |-> "none"]
  ELSE IF FirstMissing(kw, 1) = 0
       THEN [ok |-> TRUE, obj |-> [k \in KeySet |-> kw[k]], key |-> "none"]
       ELSE [ok |-> FALSE, obj |-> Unset, key |-> Keys[FirstMissing(kw, 1)]]

(* ------------------------------------------------------ gridded datasets *)
NaN == -1

LatRows == {<<10, 11>>, <<NaN, 11>>, <<NaN, NaN>>}

LonRows == {<<20, 21>>, <<20, NaN>>}

SstRows == {<<300, 301>>, <<NaN, 303>>}

Times == {"2020-01-01T00:00:00Z", "2020-01-02T00:00:00Z"}

Grids(rows, n) == [1..n -> rows]

Dataset(lat, lon, sst, t) ==
  [lat |-> lat, lon |-> lon, sea_surface_temperature |-> <<sst>>,
   time_coverage_start |-> t]

NoDataset == Dataset(<<>>, <<>>, <<>>, "unbound")

NoCleaned ==
  [lon_cleaned |-> <<>>, lat_cleaned |-> <<>>, sst_cleaned |-> <<>>,
   time_coverage_start |-> "unset"]

(* row 0 valid, row 1 NaN in both lat and lon, sst [[300,301],[NaN,303]] *)
EndToEnd2x2 ==
  Dataset(<<<<10, 11>>, <<NaN, 11>>>>, <<<<20, 21>>, <<20, NaN>>>>,
          <<<<300, 301>>, <<NaN, 303>>>>, "2020-01-01T00:00:00Z")

(* only-lat-missing, only-lon-missing, both-missing, none-missing *)
Crafted4Row ==
  Dataset(<<<<NaN, 11>>, <<10, 11>>, <<NaN, NaN>>, <<10, 11>>>>,
          <<<<20, 21>>, <<20, NaN>>, <<20, NaN>>, <<20, 21>>>>,
          <<<<300, 301>>, <<300, 301>>, <<NaN, 303>>, <<300, 301>>>>,
          "2020-01-02T00:00:00Z")

AllMissing ==
  Dataset(<<<<NaN, 11>>, <<NaN, NaN>>>>, <<<<20, NaN>>, <<20, NaN>>>>,
          <<<<300, 301>>, <<NaN, 303>>>>, "2020-01-02T00:00:00Z")

NoMissing ==
  Dataset(<<<<10, 11>>, <<10, 11>>>>, <<<<20, 21>>, <<20, 21>>>>,
          <<<<300, 301>>, <<300, 301>>>>, "2020-01-01T00:00:00Z")

GranuleDatasets == {EndToEnd2x2, Crafted4Row, AllMissing, NoMissing}

(* ------------------------------------------------------ data_cleanup     *)
isnan(x) == x = NaN

all_isnan(grid) ==
  [i \in 1..Len(grid) |-> \A j \in 1..Len(grid[i]) : isnan(grid[i][j])]

any_isnan(grid) ==
  [i \in 1..Len(grid) |-> \E j \in 1..Len(grid[i]) : isnan(grid[i][j])]

logical_or(a, b) == [i \in 1..Len(a) |-> a[i] \/ b[i]]

logical_and(a, b) == [i \in 1..Len(a) |-> a[i] /\ b[i]]

RECURSIVE index_not(_, _, _)
index_not(arr, m, i) ==
  IF i > Len(arr) THEN <<>>
  ELSE IF ~m[i] THEN <<arr[i]>> \o index_not(arr, m, i + 1)
  ELSE index_not(arr, m, i + 1)

nan_lat_mask(ds) == any_isnan(ds.lat)

nan_lon_mask(ds) == any_isnan(ds.lon)

combined_mask(ds) == logical_and(nan_lat_mask(ds), nan_lon_mask(ds))

data_cleanup_unfiltered_sst(ds) ==
  [lon_cleaned |-> index_not(ds.lon, combined_mask(ds), 1),
   lat_cleaned |-> index_not(ds.lat, combined_mask(ds), 1),
   sst_cleaned |-> ds.sea_surface_temperature[1],
   time_coverage_start |-> ds.time_coverage_start]

data_cleanup(ds) ==
  LET lat == ds.lat
      lon == ds.lon
      sst == ds.sea_surface_temperature[1]
  IN [lon_cleaned |-> index_not(lon, combined_mask(ds), 1),
      lat_cleaned |-> index_not(lat, combined_mask(ds), 1),
      sst_cleaned |-> index_not(sst, combined_mask(ds), 1),
      time_coverage_start |-> ds.time_coverage_start]

(* the dataset as data_cleanup leaves it: np.array() copies, no write-back *)
ds_filtered_in_place(ds) ==
  [ds EXCEPT !.lat = index_not(ds.lat, combined_mask(ds), 1),
             !.lon = index_not(ds.lon, combined_mask(ds), 1),
             !.sea_surface_temperature =
               <<index_not(ds.sea_surface_temperature[1], combined_mask(ds), 1)>>]

ds_after_cleanup(ds) == ds

(* ------------------------------------------------------ pipeline state   *)
Count == 1

MaxCalls == 2

Unbound == [bound |-> FALSE, ds |-> NoDataset, src |-> 0]

Running == <<>>

Terminal == {"no_data", "crashed", "done"}

ExternalCallSites ==
  {"search", "materialize", "open_loop", "plot_sst_coordinates", "plot_sst_global"}

Init ==
  /\ METHOD \in {"LOCAL", "STREAM"}
  /\ kwargs \in KwargSets
  /\ pc = "get_data"
  /\ params = Unset
  /\ results = 0
  /\ files = <<>>
  /\ file_ds = <<>>
  /\ opened = <<>>
  /\ stream = Unbound
  /\ ds_in = NoDataset
  /\ mask = <<>>
  /\ data_cleaned = NoCleaned
  /\ prev_cleaned = NoCleaned
  /\ ncalls = 0
  /\ images = <<>>
  /\ trace = <<>>
  /\ err = "none"
  /\ err_key = "none"
  /\ exit_code = Running

(* get_data line 78: search_params of the kwargs; a missing key is an      *)
(* KeyError raised by kwargs[...] before any search is issued.             *)
Construct ==
  /\ pc = "get_data"
  /\ LET r == search_params_init(kwargs)
     IN IF r.ok
        THEN /\ params' = r.obj
             /\ pc' = "search"
             /\ UNCHANGED <<err, err_key, exit_code>>
        ELSE /\ params' = Unset
             /\ pc' = "crashed"
             /\ err' = "KeyError"
             /\ err_key' = r.key
             /\ exit_code' = <<1>>
  /\ UNCHANGED <<METHOD, kwargs, results, files, file_ds, opened, stream,
                 ds_in, mask, data_cleaned, prev_cleaned, ncalls, images, trace>>

after_search_no_exit(n) == "materialize"

after_search(n) == IF n = 0 THEN "no_data" ELSE "materialize"

(* get_data lines 80-92: one search_data call, then the empty-result exit  *)
Search ==
  /\ pc = "search"
  /\ \E n \in 0..Count :
       /\ results' = n
       /\ trace' = Append(trace, "search")
       /\ pc' = after_search(n)
       /\ exit_code' = IF after_search(n) = "no_data" THEN <<0>> ELSE exit_code
  /\ UNCHANGED <<METHOD, kwargs, params, files, file_ds, opened, stream,
                 ds_in, mask, data_cleaned, prev_cleaned, ncalls, images,
                 err, err_key>>

(* lines 238-240: earthaccess.download returns the list of local files     *)
Download ==
  /\ pc = "materialize"
  /\ METHOD = "LOCAL"
  /\ \E k \in 0..MaxFiles :
       \E contents \in [1..k -> GranuleDatasets] :
         /\ files' = [i \in 1..k |-> i]
         /\ file_ds' = contents
         /\ pc' = IF k = 0 THEN "cleanup" ELSE "open_loop"
  /\ trace' = Append(trace, "download")
  /\ UNCHANGED <<METHOD, kwargs, params, results, opened, stream, ds_in, mask,
                 data_cleaned, prev_cleaned, ncalls, images, err, err_key,
                 exit_code>>

open_assign_keep_first(cur, d, i) ==
  IF cur.bound THEN cur ELSE [bound |-> TRUE, ds |-> d, src |-> i]

open_assign(cur, d, i) == [bound |-> TRUE, ds |-> d, src |-> i]

(* lines 241-242: one iteration of "for file in files: stream = open(...)" *)
OpenFile ==
  /\ pc = "open_loop"
  /\ Len(opened) < Len(files)
  /\ LET i == Len(opened) + 1
     IN /\ opened' = Append(opened, files[i])
        /\ stream' = open_assign(stream, file_ds[i], i)
        /\ pc' = IF i = Len(files) THEN "cleanup" ELSE "open_loop"
  /\ trace' = Append(trace, "open_dataset")
  /\ UNCHANGED <<METHOD, kwargs, params, results, files, file_ds, ds_in, mask,
                 data_cleaned, prev_cleaned, ncalls, images, err, err_key,
                 exit_code>>

(* lines 244-246 and stream_data: one combined dataset from all results    *)
StreamData ==
  /\ pc = "materialize"
  /\ METHOD = "STREAM"
  /\ \E d \in GranuleDatasets : stream' = [bound |-> TRUE, ds |-> d, src |-> 0]
  /\ pc' = "cleanup"
  /\ trace' = Append(trace, "stream_data")
  /\ UNCHANGED <<METHOD, kwargs, params, results, files, file_ds, opened, ds_in,
                 mask, data_cleaned, prev_cleaned, ncalls, images, err, err_key,
                 exit_code>>

(* line 248 with "stream" never assigned: reading the name raises          *)
CleanupUnbound ==
  /\ pc = "cleanup"
  /\ ~stream.bound
  /\ pc' = "crashed"
  /\ err' = "UnboundLocalError"
  /\ exit_code' = <<1>>
  /\ UNCHANGED <<METHOD, kwargs, params, results, files, file_ds, opened, stream,
                 ds_in, mask, data_cleaned, prev_cleaned, ncalls, images, trace,
                 err_key>>

(* line 248: data_cleaned = data_cleanup(stream)                           *)
Cleanup ==
  /\ pc = "cleanup"
  /\ stream.bound
  /\ ds_in' = stream.ds
  /\ mask' = combined_mask(stream.ds)
  /\ prev_cleaned' = data_cleaned
  /\ data_cleaned' = data_cleanup(stream.ds)
  /\ stream' = [stream EXCEPT !.ds = ds_after_cleanup(stream.ds)]
  /\ ncalls' = ncalls + 1
  /\ trace' = Append(trace, "data_cleanup")
  /\ pc' = "plot_sst_coordinates"
  /\ UNCHANGED <<METHOD, kwargs, params, results, files, file_ds, opened,
                 images, err, err_key, exit_code>>

(* line 250: plot_sst_coordinates(data_cleaned), savefig at line 183       *)
PlotCoordinates ==
  /\ pc = "plot_sst_coordinates"
  /\ images' = Append(images, [name |-> "Sea surface temperature",
                               t |-> data_cleaned.time_coverage_start,
                               rows |-> Len(data_cleaned.sst_cleaned)])
  /\ trace' = Append(trace, "plot_sst_coordinates")
  /\ pc' = "plot_sst_global"
  /\ UNCHANGED <<METHOD, kwargs, params, results, files, file_ds, opened, stream,
                 ds_in, mask, data_cleaned, prev_cleaned, ncalls, err, err_key,
                 exit_code>>

(* line 252: plot_sst_global(data_cleaned), savefig at line 220            *)
PlotGlobal ==
  /\ pc = "plot_sst_global"
  /\ images' = Append(images, [name |-> "Sea surface temperature global",
                               t |-> data_cleaned.time_coverage_start,
                               rows |-> Len(data_cleaned.sst_cleaned)])
  /\ trace' = Append(trace, "plot_sst_global")
  /\ pc' = "return"
  /\ UNCHANGED <<METHOD, kwargs, params, results, files, file_ds, opened, stream,
                 ds_in, mask, data_cleaned, prev_cleaned, ncalls, err, err_key,
                 exit_code>>

(* line 264: sys.exit(None) once sea_surface_temperature has returned      *)
Finish ==
  /\ pc = "return"
  /\ pc' = "done"
  /\ exit_code' = <<0>>
  /\ UNCHANGED <<METHOD, kwargs, params, results, files, file_ds, opened, stream,
                 ds_in, mask, data_cleaned, prev_cleaned, ncalls, images, trace,
                 err, err_key>>

(* an exception out of earthaccess, xarray or matplotlib: nothing catches  *)
ExternalFailure ==
  /\ pc \in ExternalCallSites
  /\ pc = "open_loop" => Len(opened) < Len(files)
  /\ pc' = "crashed"
  /\ err' = "External"
  /\ err_key' = pc
  /\ exit_code' = <<1>>
  /\ UNCHANGED <<METHOD, kwargs, params, results, files, file_ds, opened, stream,
                 ds_in, mask, data_cleaned, prev_cleaned, ncalls, images, trace>>

Next ==
  \/ Construct
  \/ Search
  \/ Download
  \/ OpenFile
  \/ StreamData
  \/ CleanupUnbound
  \/ Cleanup
  \/ PlotCoordinates
  \/ PlotGlobal
  \/ Finish
  \/ ExternalFailure

Spec == Init /\ [][Next]_vars

(* ------------------------------------------------------------------------ *)
(* data_cleanup on its own: any dataset, called up to MaxCalls times on the *)
(* same dataset object.                                                     *)
InitCleanup ==
  /\ METHOD = "LOCAL"
  /\ kwargs = [k \in {} |-> "none"]
  /\ pc = "call_data_cleanup"
  /\ params = Unset
  /\ results = 0
  /\ files = <<>>
  /\ file_ds = <<>>
  /\ opened = <<>>
  /\ \E n \in 0..MaxRows :
       \E la \in Grids(LatRows, n), lo \in Grids(LonRows, n),
          ss \in Grids(SstRows, n), t \in Times :
         /\ stream = [bound |-> TRUE, ds |-> Dataset(la, lo, ss, t), src |-> 0]
         /\ ds_in = Dataset(la, lo, ss, t)
  /\ mask = <<>>
  /\ data_cleaned = NoCleaned
  /\ prev_cleaned = NoCleaned
  /\ ncalls = 0
  /\ images = <<>>
  /\ trace = <<>>
  /\ err = "none"
  /\ err_key = "none"
  /\ exit_code = Running

CallCleanup ==
  /\ pc = "call_data_cleanup"
  /\ ncalls < MaxCalls
  /\ mask' = combined_mask(stream.ds)
  /\ prev_cleaned' = data_cleaned
  /\ data_cleaned' = data_cleanup(stream.ds)
  /\ stream' = [stream EXCEPT !.ds = ds_after_cleanup(stream.ds)]
  /\ ncalls' = ncalls + 1
  /\ trace' = Append(trace, "data_cleanup")
  /\ UNCHANGED <<METHOD, kwargs, pc, params, results, files, file_ds, opened,
                 ds_in, images, err, err_key, exit_code>>

NextCleanup == CallCleanup

SpecCleanup == InitCleanup /\ [][NextCleanup]_vars

(* ------------------------------------------------------------------------ *)
(* Properties of data_cleanup, checked under SpecCleanup.                   *)

C2_RowAlignment ==
  ncalls > 0 =>
    LET n == Len(ds_in.lat)
        sst == ds_in.sea_surface_temperature[1]
        latNaN(i) == \E j \in 1..Len(ds_in.lat[i]) : ds_in.lat[i][j] = NaN
        lonNaN(i) == \E j \in 1..Len(ds_in.lon[i]) : ds_in.lon[i][j] = NaN
        kept == {i \in 1..n : ~(latNaN(i) /\ lonNaN(i))}
        rank(i) == Cardinality({j \in kept : j <= i})
        clean == \A i \in 1..n : \A j \in 1..Len(sst[i]) :
                   ds_in.lat[i][j] # NaN /\ ds_in.lon[i][j] # NaN /\ sst[i][j] # NaN
    IN /\ Len(data_cleaned.lon_cleaned) = Cardinality(kept)
       /\ Len(data_cleaned.lat_cleaned) = Cardinality(kept)
       /\ Len(data_cleaned.sst_cleaned) = Cardinality(kept)
       /\ \A i \in kept :
            /\ data_cleaned.lon_cleaned[rank(i)] = ds_in.lon[i]
            /\ data_cleaned.lat_cleaned[rank(i)] = ds_in.lat[i]
            /\ data_cleaned.sst_cleaned[rank(i)] = sst[i]
       /\ clean =>
            /\ data_cleaned.lon_cleaned = ds_in.lon
            /\ data_cleaned.lat_cleaned = ds_in.lat
            /\ data_cleaned.sst_cleaned = sst

C2_Witness ==
  /\ ncalls > 0
  /\ ds_in = EndToEnd2x2
  /\ data_cleaned.sst_cleaned = <<<<300, 301>>>>
  /\ data_cleaned.lat_cleaned = <<<<10, 11>>>>
  /\ data_cleaned.lon_cleaned = <<<<20, 21>>>>

C3_PartialKwargsFail ==
  (DOMAIN kwargs # {} /\ ~(KeySet \subseteq DOMAIN kwargs) /\ pc # "get_data") =>
    /\ pc = "crashed"
    /\ err = "KeyError"
    /\ err_key \in KeySet \ DOMAIN kwargs
    /\ trace = <<>>
    /\ results = 0
    /\ images = <<>>
    /\ exit_code = <<1>>

C3_Witness ==
  /\ DOMAIN kwargs = {"verbose"}
  /\ pc = "crashed"
  /\ err = "KeyError"
  /\ err_key = "start_date"
  /\ trace = <<>>

(* C4: no arguments give exactly the five documented defaults; all five    *)
(* keys give exactly the supplied values, no default mixed in.             *)
C4_DefaultsAllOrNothing ==
  pc \notin {"get_data", "call_data_cleanup"} =>
    /\ DOMAIN kwargs = {} =>
         /\ params.start_date = "2020-01-01"
         /\ params.start_time = "00:00:00"
         /\ params.end_date = "2020-01-01"
         /\ params.end_time = "01:00:00"
         /\ params.bounding_box = "(-45, -45, 45, 45)"
    /\ KeySet \subseteq DOMAIN kwargs =>
         \A k \in KeySet : params[k] = kwargs[k]

C4_Witness ==
  /\ pc = "search"
  /\ KeySet \subseteq DOMAIN kwargs
  /\ params.start_date = "today-1d"
  /\ params.end_time = "now"

(* C5: an empty search result ends the run at once with exit status 0: one *)
(* search, no download or open, no filtering, no rendering, no image.      *)
C5_NoDataExit ==
  (trace # <<>> /\ results = 0) =>
    /\ pc = "no_data"
    /\ exit_code = <<0>>
    /\ trace = <<"search">>
    /\ files = <<>>
    /\ opened = <<>>
    /\ ~stream.bound
    /\ ncalls = 0
    /\ images = <<>>

C5_Witness ==
  /\ pc = "no_data"
  /\ results = 0
  /\ trace = <<"search">>
  /\ exit_code = <<0>>

(* C6: in every run whose search returns a granule and in which no external *)
(* call fails, the run ends only after search, materialize, filter, render  *)
(* happened in that order, one search, one filter, both images written.     *)
C6_StagesInOrder ==
  (pc \in Terminal /\ results >= 1 /\ err # "External") =>
    /\ pc = "done"
    /\ Len(images) = 2
    /\ images[1].name = "Sea surface temperature"
    /\ images[2].name = "Sea surface temperature global"
    /\ Len(trace) >= 5
    /\ trace[1] = "search"
    /\ \A i \in 2..(Len(trace) - 3) :
         trace[i] \in {"download", "open_dataset", "stream_data"}
    /\ trace[Len(trace) - 2] = "data_cleanup"
    /\ trace[Len(trace) - 1] = "plot_sst_coordinates"
    /\ trace[Len(trace)] = "plot_sst_global"

(* C8: when every row has a NaN in both lat and lon, data_cleanup returns  *)
(* three outputs with zero rows and raises nothing, and both plotting      *)
(* functions are called on the empty data; only a failure inside a         *)
(* plotting call can end the run before the second image.                  *)
C8_AllRowsExcluded ==
  (/\ ncalls >= 1
   /\ Len(ds_in.lat) > 0
   /\ \A i \in 1..Len(ds_in.lat) :
        /\ \E j \in 1..Len(ds_in.lat[i]) : ds_in.lat[i][j] = NaN
        /\ \E j \in 1..Len(ds_in.lon[i]) : ds_in.lon[i][j] = NaN) =>
    /\ data_cleaned.lon_cleaned = <<>>
    /\ data_cleaned.lat_cleaned = <<>>
    /\ data_cleaned.sst_cleaned = <<>>
    /\ pc \in {"plot_sst_coordinates", "plot_sst_global", "return", "done", "crashed"}
    /\ pc = "crashed" =>
         /\ err = "External"
         /\ err_key \in {"plot_sst_coordinates", "plot_sst_global"}
    /\ pc \in {"return", "done"} =>
         /\ Len(images) = 2
         /\ images[1].rows = 0
         /\ images[2].rows = 0
         /\ trace[Len(trace) - 1] = "plot_sst_coordinates"
         /\ trace[Len(trace)] = "plot_sst_global"

C8_Witness ==
  /\ pc = "done"
  /\ ds_in = AllMissing
  /\ data_cleaned.sst_cleaned = <<>>
  /\ Len(images) = 2

(* C9: under LOCAL with k >= 1 downloaded files, the files are opened in   *)
(* the order returned and data_cleanup gets the dataset of the last file;  *)
(* the earlier datasets reach neither the filter nor the renderers.        *)
C9_LastFileWins ==
  /\ opened = SubSeq(files, 1, Len(opened))
  /\ (METHOD = "LOCAL" /\ ncalls >= 1) =>
       /\ Len(files) >= 1
       /\ opened = files
       /\ stream.src = Len(files)
       /\ ds_in = file_ds[Len(files)]
       /\ Cardinality({i \in 1..Len(trace) : trace[i] = "open_dataset"}) = Len(files)
       /\ \A i \in 1..Len(images) :
            images[i].t = file_ds[Len(files)].time_coverage_start

C9_Witness ==
  /\ METHOD = "LOCAL"
  /\ pc = "done"
  /\ Len(files) = 2
  /\ file_ds[1] = Crafted4Row
  /\ file_ds[2] = EndToEnd2x2
  /\ ds_in = EndToEnd2x2
  /\ Len(images) = 2

(* C10: under either strategy and for any number of downloaded files,      *)
(* zero included, the filter step is only reached with the dataset         *)
(* variable assigned by the selected strategy.                             *)
C10_StreamAssignedAtFilter ==
  /\ pc = "cleanup" => stream.bound
  /\ err # "UnboundLocalError"

====
